---- MODULE Spec2Model ----
(***************************************************************************)
(* Prime Time TCP server (s1_prime_time/src/lib.rs).                       *)
(*                                                                         *)
(* The byte stream of a connection is a sequence of tokens.  A token is    *)
(* either the delimiter byte '\n' (NL) or a newline-free run of bytes      *)
(* holding one piece of text: a JSON document (object or array, kept as    *)
(* its list of members so that deserialization is computed), raw text, or  *)
(* bytes that are no JSON at all.  Numbers are fixed-point: a JSON number  *)
(* v is kept as the integer v * Den.                                       *)
(***************************************************************************)
EXTENDS Integers, Sequences, FiniteSets, TLC

\* ------------------------------------------------------------------ bounds

\* Connections the listener accepts in a run of Spec.
MaxConns == 2
\* Events of the environment in a run of Spec: segments sent and shutdowns by
\* the peers, and I/O errors of the sockets.
MaxEnvOps == 3
\* Fixed-point denominator of JSON numbers: 25 stands for 2.5 when Den = 10.
Den == 10
\* Requests each client sends in SpecConc.
ReqsPerClient == 2
\* "Make sure you can handle at least 5 simultaneous clients."
Clients == 5
\* The whole numbers 0..MaxNumber are all asked about in SpecHandler.
MaxNumber == 50
\* The JSON objects and arrays sent in SpecHandler have up to MaxMembers
\* members.
MaxMembers == 3

\* ------------------------------------------------------------------ bytes

Str(x) == [t |-> "str", s |-> x, n |-> 0]
Num(x) == [t |-> "num", s |-> "", n |-> x]
Bool(b) == [t |-> "bool", s |-> IF b THEN "true" ELSE "false", n |-> 0]
Null == [t |-> "null", s |-> "", n |-> 0]
\* A JSON number literal outside the range of f64, such as 1e999.
Huge == [t |-> "huge", s |-> "", n |-> 0]

Member(k, v) == [key |-> k, val |-> v]

\* The delimiter byte b'\n'.
NL == [kind |-> "nl", s |-> "", items |-> <<>>]
\* The text of a JSON object with the members ms, in that order.
Obj(ms) == [kind |-> "object", s |-> "", items |-> ms]
\* The text of a JSON array with the elements vs, in that order.
Arr(vs) == [kind |-> "array", s |-> "", items |-> [i \in DOMAIN vs |-> Member("", vs[i])]]
\* The text of a JSON value that is neither an object nor an array.
Scalar(v) == [kind |-> "scalar", s |-> "", items |-> <<Member("", v)>>]
\* Raw bytes x that are not well-formed JSON.
Raw(x) == [kind |-> "raw", s |-> x, items |-> <<>>]

\* {"method":"isPrime","number":v}, v a whole number.
IsPrimeReq(v) == Obj(<<Member("method", Str("isPrime")), Member("number", Num(v * Den))>>)
\* {"method":"isPrim","number":7}: another method.
WrongMethodReq == Obj(<<Member("method", Str("isPrim")), Member("number", Num(7 * Den))>>)

\* ------------------------------------------------------------------ is_prime

\* `number as i64`: a float to integer cast truncates toward zero.
Trunc(n) == IF n >= 0 THEN n \div Den ELSE -((-n) \div Den)
\* f64::fract, in units of 1/Den.
Fract(n) == n - Trunc(n) * Den

\* `f64::sqrt(number as f64) as i64` for number >= 0: the square root,
\* truncated.
ISqrt(v) == CHOOSE r \in 0..v : r * r <= v /\ (r + 1) * (r + 1) > v

\* Mutant of is_prime: the fractional part is cut off, not tested.
is_primeTruncates(n) ==
    LET number == Trunc(n) IN
    IF number < 2
    THEN FALSE
    ELSE LET end == ISqrt(number) IN
         ~ \E d \in 2..end : number % d = 0

\* Mutant of is_prime: the divisors stop short of the square root.
is_primeShort(n) ==
    LET number == Trunc(n) IN
    IF Fract(n) # 0 \/ number < 2
    THEN FALSE
    ELSE LET end == ISqrt(number) IN
         ~ \E d \in 2..(end - 1) : number % d = 0

is_prime(n) ==
    LET number == Trunc(n) IN
    IF Fract(n) # 0 \/ number < 2
    THEN FALSE
    ELSE LET end == ISqrt(number) IN
         ~ \E d \in 2..end : number % d = 0

\* ------------------------------------------------------------------ Request / Response

MalformedReq == [variant |-> "MalformedReq", method |-> "", number |-> 0]
ConformingReq(m, v) == [variant |-> "ConformingReq", method |-> m, number |-> v]

MalformedResp == [variant |-> "MalformedResp", method |-> "", prime |-> FALSE]
ConformingResp(m, p) == [variant |-> "ConformingResp", method |-> m, prime |-> p]

NoObj == [ok |-> FALSE, method |-> "", number |-> 0]
SomeObj(m, v) == [ok |-> TRUE, method |-> m, number |-> v]

\* The document in a payload: serde_json skips whitespace (the newline) around
\* one value and refuses anything else after it.
Document(line) ==
    LET body == IF line # <<>> /\ line[Len(line)] = NL
                THEN SubSeq(line, 1, Len(line) - 1)
                ELSE line
    IN IF Len(body) = 1 /\ body[1].kind \in {"object", "array", "scalar"}
       THEN body[1]
       ELSE Raw("")

\* The positions of the members named k.
Keyed(ms, k) == {i \in DOMAIN ms : ms[i].key = k}

\* serde's derived visitor for ConformingReqObj over a JSON object (visit_map):
\* each field once, a string and a number, other members ignored.
FromMap(ms) ==
    LET meth == Keyed(ms, "method")
        numb == Keyed(ms, "number")
    IN IF /\ Cardinality(meth) = 1
          /\ Cardinality(numb) = 1
          /\ \A i \in meth : ms[i].val.t = "str"
          /\ \A i \in numb : ms[i].val.t = "num"
       THEN SomeObj(ms[CHOOSE i \in meth : TRUE].val.s, ms[CHOOSE i \in numb : TRUE].val.n)
       ELSE NoObj

\* The same visitor over a JSON array (visit_seq): the fields by position,
\* and no element after them.
FromSeq(ms) ==
    IF Len(ms) = 2 /\ ms[1].val.t = "str" /\ ms[2].val.t = "num"
    THEN SomeObj(ms[1].val.s, ms[2].val.n)
    ELSE NoObj

\* serde_json::from_slice::<ConformingReqObj>(line).ok()
FromSlice(line) ==
    LET doc == Document(line) IN
    CASE doc.kind = "object" -> FromMap(doc.items)
      [] doc.kind = "array" -> FromSeq(doc.items)
      [] OTHER -> NoObj

from_bytes(line) ==
    LET obj == FromSlice(line) IN
    IF obj.ok
    THEN IF obj.method = "isPrime"
         THEN ConformingReq(obj.method, obj.number)
         ELSE MalformedReq
    ELSE MalformedReq

process_req(req) ==
    IF req.variant = "ConformingReq"
    THEN ConformingResp(req.method, is_prime(req.number))
    ELSE MalformedResp

\* Mutant of into_bytes: the malformed response is no bytes at all.
into_bytesSilent(resp) ==
    IF resp.variant = "ConformingResp"
    THEN <<Obj(<<Member("method", Str(resp.method)), Member("prime", Bool(resp.prime))>>), NL>>
    ELSE <<>>

into_bytes(resp) ==
    IF resp.variant = "ConformingResp"
    THEN <<Obj(<<Member("method", Str(resp.method)), Member("prime", Bool(resp.prime))>>), NL>>
    ELSE <<Raw("malformed"), NL>>

\* ------------------------------------------------------------------ state

VARIABLES
    listener,   \* where run is: "start", "accepting", "BindFail" (returned), "panicked"
    task,       \* per connection, the locals of process and where it is
    net,        \* per connection, the bytes the peer sent that were not read yet
    peerClosed, \* per connection, whether the peer shut down its sending side
    out,        \* per connection, what each successful flush delivered to the peer
    reqs,       \* per connection, the payloads handed to Request::from_bytes so far
    envOps      \* events of the environment so far

vars == <<listener, task, net, peerClosed, out, reqs, envOps>>

ConnIds == DOMAIN task

\* process before `let mut stream`: the socket is not accepted yet.
NoTask ==
    [pc |-> "none", line |-> <<>>, response |-> <<>>, should_continue |-> TRUE,
     wbuf |-> <<>>, result |-> "none", owns |-> {}]

\* What process owns while it runs: the socket inside its BufStream, with the
\* stream's buffers, and the line buffer.
Locals == {"socket", "stream buffers", "line buffer"}

\* Lines 77-79: a fresh BufStream, an empty line, should_continue = true.
NewTask == [NoTask EXCEPT !.pc = "Reading", !.owns = Locals]

\* Mutant of Return: process returns and its locals are never dropped.
ReturnLeaks(t, pc, result) == [t EXCEPT !.pc = pc, !.result = result]

\* process returns, by `?` (lines 85, 110, 116) or by Ok(()) (line 125): its
\* locals go out of scope and are dropped, which closes the socket.
Return(t, pc, result) == [t EXCEPT !.pc = pc, !.result = result, !.owns = {}]

Running(c) == task[c].pc \in {"Reading", "Dispatching", "Writing", "Flushing"}
Ended(c) == task[c].pc \in {"Done", "Failed"}
Accepted == {c \in ConnIds : task[c].pc # "none"}

\* What the peers of Spec send in one segment.
Segments ==
    { <<IsPrimeReq(7), NL>>, <<IsPrimeReq(8), NL>>, <<WrongMethodReq, NL>>, <<IsPrimeReq(7)>> }

InitOver(ids) ==
    /\ listener = "start"
    /\ task = [c \in ids |-> NoTask]
    /\ net = [c \in ids |-> <<>>]
    /\ peerClosed = [c \in ids |-> FALSE]
    /\ out = [c \in ids |-> <<>>]
    /\ reqs = [c \in ids |-> <<>>]
    /\ envOps = 0

Init == InitOver(1..MaxConns)

\* ------------------------------------------------------------------ peers

\* The peer of c writes one segment to its socket.
PeerSend(c, seg) ==
    /\ task[c].pc # "none"
    /\ ~ Ended(c)
    /\ ~ peerClosed[c]
    /\ envOps < MaxEnvOps
    /\ net' = [net EXCEPT ![c] = @ \o seg]
    /\ envOps' = envOps + 1
    /\ UNCHANGED <<listener, task, peerClosed, out, reqs>>

\* The peer of c shuts down its sending side.
PeerClose(c) ==
    /\ task[c].pc # "none"
    /\ ~ Ended(c)
    /\ ~ peerClosed[c]
    /\ envOps < MaxEnvOps
    /\ peerClosed' = [peerClosed EXCEPT ![c] = TRUE]
    /\ envOps' = envOps + 1
    /\ UNCHANGED <<listener, task, net, out, reqs>>

\* ------------------------------------------------------------------ run

BindOk ==
    /\ listener = "start"
    /\ listener' = "accepting"
    /\ UNCHANGED <<task, net, peerClosed, out, reqs, envOps>>

\* TcpListener::bind fails: `?` returns Err(ServerErrorKind::BindFail).
BindFailed ==
    /\ listener = "start"
    /\ listener' = "BindFail"
    /\ UNCHANGED <<task, net, peerClosed, out, reqs, envOps>>

\* Mutant of Accept: process(socket) is awaited in the accept loop, so that
\* the next accept waits for the connection before it to end.
AcceptInline ==
    /\ listener = "accepting"
    /\ \A d \in ConnIds : task[d].pc \in {"none", "Done", "Failed"}
    /\ \E c \in ConnIds :
        /\ task[c].pc = "none"
        /\ \A d \in ConnIds : d < c => task[d].pc # "none"
        /\ task' = [task EXCEPT ![c] = NewTask]
    /\ UNCHANGED <<listener, net, peerClosed, out, reqs, envOps>>

\* Mutant of Accept: the loop is entered although the bind failed.
AcceptUnbound ==
    /\ listener \in {"accepting", "BindFail"}
    /\ \E c \in ConnIds :
        /\ task[c].pc = "none"
        /\ \A d \in ConnIds : d < c => task[d].pc # "none"
        /\ task' = [task EXCEPT ![c] = NewTask]
    /\ UNCHANGED <<listener, net, peerClosed, out, reqs, envOps>>

\* listener.accept() yields a socket, tokio::spawn starts process on it and
\* the loop goes round.  Connections are numbered in the order of acceptance.
Accept ==
    /\ listener = "accepting"
    /\ \E c \in ConnIds :
        /\ task[c].pc = "none"
        /\ \A d \in ConnIds : d < c => task[d].pc # "none"
        /\ task' = [task EXCEPT ![c] = NewTask]
    /\ UNCHANGED <<listener, net, peerClosed, out, reqs, envOps>>

\* listener.accept() yields an error: unwrap panics and run is gone.  The
\* tasks already spawned belong to the runtime and are left as they are.
AcceptFailed ==
    /\ listener = "accepting"
    /\ listener' = "panicked"
    /\ UNCHANGED <<task, net, peerClosed, out, reqs, envOps>>

\* ------------------------------------------------------------------ process

Delims(bytes) == {i \in DOMAIN bytes : bytes[i] = NL}
HasDelim(bytes) == Delims(bytes) # {}
FirstDelim(bytes) == CHOOSE i \in Delims(bytes) : \A j \in Delims(bytes) : i <= j

\* Mutant of ReadLen: bytes before the end of the stream that no delimiter
\* follows are not returned.
ReadLenDropsPartial(bytes) == IF HasDelim(bytes) THEN FirstDelim(bytes) ELSE 0

\* How many bytes read_until(b'\n') takes from the stream: up to and with
\* the first delimiter, or all there is when the stream ended before one.
ReadLen(bytes) == IF HasDelim(bytes) THEN FirstDelim(bytes) ELSE Len(bytes)

\* read_until returns once the delimiter or the end of the stream was seen.
ReadReady(c) == HasDelim(net[c]) \/ peerClosed[c]

\* Mutant of EndIteration: the loop is left after every iteration.
EndIterationOnce(t) ==
    Return([t EXCEPT !.line = <<>>], "Done", "Ok")

\* Mutant of EndIteration: the line buffer is not cleared.
EndIterationKeepsLine(t) ==
    IF t.should_continue
    THEN [t EXCEPT !.pc = "Reading"]
    ELSE Return(t, "Done", "Ok")

\* The end of an iteration: line.clear() and the test of `while should_continue`.
EndIteration(t) ==
    IF t.should_continue
    THEN [t EXCEPT !.line = <<>>, !.pc = "Reading"]
    ELSE Return([t EXCEPT !.line = <<>>], "Done", "Ok")

\* Mutant of Dispatch: should_continue stays set on a malformed response.
DispatchKeepsGoing(t) ==
    [t EXCEPT !.response = into_bytes(process_req(from_bytes(t.line)))]

\* Mutant of Dispatch: the response of the request before is kept when there
\* is one.
DispatchRemembers(t) ==
    LET req == from_bytes(t.line)
        resp == process_req(req)
    IN [t EXCEPT !.should_continue = IF resp.variant = "MalformedResp" THEN FALSE ELSE @,
                 !.response = IF @ # <<>> THEN @ ELSE into_bytes(resp)]

\* Lines 89-102: the request, its response and the bytes to send.
Dispatch(t) ==
    LET req == from_bytes(t.line)
        resp == process_req(req)
    IN [t EXCEPT !.should_continue = IF resp.variant = "MalformedResp" THEN FALSE ELSE @,
                 !.response = into_bytes(resp)]

\* Line 105: with nothing to send the iteration ends here.
AfterDispatch(t) ==
    IF t.response # <<>> THEN [t EXCEPT !.pc = "Writing"] ELSE EndIteration(t)

\* read_until returned read_len > 0: lines 82-87, line holds the payload.
ReadFrame(c) ==
    /\ task[c].pc = "Reading"
    /\ ReadReady(c)
    /\ ReadLen(net[c]) > 0
    /\ LET k == ReadLen(net[c])
           payload == task[c].line \o SubSeq(net[c], 1, k)
       IN /\ net' = [net EXCEPT ![c] = SubSeq(@, k + 1, Len(@))]
          /\ reqs' = [reqs EXCEPT ![c] = Append(@, payload)]
          /\ task' = [task EXCEPT ![c] = [@ EXCEPT !.line = payload, !.pc = "Dispatching"]]
    /\ UNCHANGED <<listener, peerClosed, out, envOps>>

\* Lines 89-105: the payload is handed to the request handler, up to the
\* await of write_all.
Dispatching(c) ==
    /\ task[c].pc = "Dispatching"
    /\ task' = [task EXCEPT ![c] = AfterDispatch(Dispatch(task[c]))]
    /\ UNCHANGED <<listener, net, peerClosed, out, reqs, envOps>>

\* Mutant of ReadEof: the end of the stream is answered before the loop ends.
ReadEofAnswers(c) ==
    /\ task[c].pc = "Reading"
    /\ ReadReady(c)
    /\ ReadLen(net[c]) = 0
    /\ out' = [out EXCEPT ![c] = Append(@, into_bytes(MalformedResp))]
    /\ task' = [task EXCEPT ![c] = EndIteration([@ EXCEPT !.should_continue = FALSE])]
    /\ UNCHANGED <<listener, net, peerClosed, reqs, envOps>>

\* Mutant of ReadEof: a read that waits for input gives up and reports the
\* end of the stream.
ReadEofIdle(c) ==
    /\ task[c].pc = "Reading"
    /\ ReadLen(net[c]) = 0
    /\ task' = [task EXCEPT ![c] = EndIteration([@ EXCEPT !.should_continue = FALSE])]
    /\ UNCHANGED <<listener, net, peerClosed, out, reqs, envOps>>

\* read_until returned 0: lines 118-125.
ReadEof(c) ==
    /\ task[c].pc = "Reading"
    /\ ReadReady(c)
    /\ ReadLen(net[c]) = 0
    /\ task' = [task EXCEPT ![c] = EndIteration([@ EXCEPT !.should_continue = FALSE])]
    /\ UNCHANGED <<listener, net, peerClosed, out, reqs, envOps>>

\* Mutant of ReadFailed: the malformed response is sent before returning.
ReadFailedAnswers(c) ==
    /\ task[c].pc = "Reading"
    /\ envOps < MaxEnvOps
    /\ envOps' = envOps + 1
    /\ out' = [out EXCEPT ![c] = Append(@, into_bytes(MalformedResp))]
    /\ task' = [task EXCEPT ![c] = Return(@, "Failed", "ReadFail")]
    /\ UNCHANGED <<listener, net, peerClosed, reqs>>

\* read_until returned an error: `?` returns Err(ServerErrorKind::ReadFail).
ReadFailed(c) ==
    /\ task[c].pc = "Reading"
    /\ envOps < MaxEnvOps
    /\ envOps' = envOps + 1
    /\ task' = [task EXCEPT ![c] = Return(@, "Failed", "ReadFail")]
    /\ UNCHANGED <<listener, net, peerClosed, out, reqs>>

\* Mutant of WriteAll: the response is written twice.
WriteAllTwice(c) ==
    /\ task[c].pc = "Writing"
    /\ task' = [task EXCEPT ![c] = [@ EXCEPT !.wbuf = @ \o task[c].response \o task[c].response,
                                             !.pc = "Flushing"]]
    /\ UNCHANGED <<listener, net, peerClosed, out, reqs, envOps>>

\* write_all(&response) into the BufStream's write buffer.
WriteAll(c) ==
    /\ task[c].pc = "Writing"
    /\ task' = [task EXCEPT ![c] = [@ EXCEPT !.wbuf = @ \o task[c].response, !.pc = "Flushing"]]
    /\ UNCHANGED <<listener, net, peerClosed, out, reqs, envOps>>

\* write_all returned an error: `?` returns Err(ServerErrorKind::WriteFail).
WriteAllFailed(c) ==
    /\ task[c].pc = "Writing"
    /\ envOps < MaxEnvOps
    /\ envOps' = envOps + 1
    /\ task' = [task EXCEPT ![c] = Return(@, "Failed", "WriteFail")]
    /\ UNCHANGED <<listener, net, peerClosed, out, reqs>>

\* Mutant of Flush: all connections write to one shared stream, the first.
FlushShared(c) ==
    /\ task[c].pc = "Flushing"
    /\ out' = [out EXCEPT ![1] = Append(@, task[c].wbuf)]
    /\ task' = [task EXCEPT ![c] = EndIteration([@ EXCEPT !.wbuf = <<>>])]
    /\ UNCHANGED <<listener, net, peerClosed, reqs, envOps>>

\* Mutant of Flush: the bytes stay in the write buffer and the loop goes on.
FlushSkipped(c) ==
    /\ task[c].pc = "Flushing"
    /\ task' = [task EXCEPT ![c] = EndIteration(@)]
    /\ UNCHANGED <<listener, net, peerClosed, out, reqs, envOps>>

\* flush() hands the buffered bytes to the peer; lines 113-122.
Flush(c) ==
    /\ task[c].pc = "Flushing"
    /\ out' = [out EXCEPT ![c] = Append(@, task[c].wbuf)]
    /\ task' = [task EXCEPT ![c] = EndIteration([@ EXCEPT !.wbuf = <<>>])]
    /\ UNCHANGED <<listener, net, peerClosed, reqs, envOps>>

\* Mutant of FlushFailed: the error is propagated out of run.
FlushFailedFatal(c) ==
    /\ task[c].pc = "Flushing"
    /\ envOps < MaxEnvOps
    /\ envOps' = envOps + 1
    /\ listener' = "panicked"
    /\ task' = [task EXCEPT ![c] = Return(@, "Failed", "WriteFail")]
    /\ UNCHANGED <<net, peerClosed, out, reqs>>

\* flush returned an error: `?` returns Err(ServerErrorKind::WriteFail).
FlushFailed(c) ==
    /\ task[c].pc = "Flushing"
    /\ envOps < MaxEnvOps
    /\ envOps' = envOps + 1
    /\ task' = [task EXCEPT ![c] = Return(@, "Failed", "WriteFail")]
    /\ UNCHANGED <<listener, net, peerClosed, out, reqs>>

\* ------------------------------------------------------------------ specification

Next ==
    \/ BindOk
    \/ BindFailed
    \/ Accept
    \/ AcceptFailed
    \/ \E c \in ConnIds, seg \in Segments : PeerSend(c, seg)
    \/ \E c \in ConnIds : PeerClose(c)
    \/ \E c \in ConnIds : ReadFrame(c)
    \/ \E c \in ConnIds : Dispatching(c)
    \/ \E c \in ConnIds : ReadEof(c)
    \/ \E c \in ConnIds : ReadFailed(c)
    \/ \E c \in ConnIds : WriteAll(c)
    \/ \E c \in ConnIds : WriteAllFailed(c)
    \/ \E c \in ConnIds : Flush(c)
    \/ \E c \in ConnIds : FlushFailed(c)

Spec == Init /\ [][Next]_vars

\* ------------------------------------------------------------------ five clients

\* The i-th request of the client on connection c: clients ask about
\* different numbers, so that their answers differ.
ScriptReq(c, i) == IsPrimeReq(c + i)

RECURSIVE ScriptFrom(_, _)
ScriptFrom(c, i) ==
    IF i > ReqsPerClient THEN <<>> ELSE <<ScriptReq(c, i), NL>> \o ScriptFrom(c, i + 1)
\* All the requests of the client on connection c, one per line.
Script(c) == ScriptFrom(c, 1)

\* The client on connection c sends its requests, pipelined.
ClientSend(c) ==
    /\ task[c].pc # "none"
    /\ reqs[c] = <<>>
    /\ net[c] = <<>>
    /\ net' = [net EXCEPT ![c] = Script(c)]
    /\ UNCHANGED <<listener, task, peerClosed, out, reqs, envOps>>

InitConc == InitOver(1..Clients)

NextConc ==
    \/ BindOk
    \/ Accept
    \/ \E c \in ConnIds : ClientSend(c)
    \/ \E c \in ConnIds : ReadFrame(c)
    \/ \E c \in ConnIds : Dispatching(c)
    \/ \E c \in ConnIds : WriteAll(c)
    \/ \E c \in ConnIds : Flush(c)

SpecConc == InitConc /\ [][NextConc]_vars

\* ------------------------------------------------------------------ one request

\* The numbers asked about, in units of 1/Den: all from -2 to MaxNumber in
\* steps of 1/Den, and those of the tests: 778013, -12345, 4224223.1 (for
\* 4224223.1234).
Numbers ==
    ((-2 * Den)..(MaxNumber * Den))
        \cup {778013 * Den, -12345 * Den, 4224223 * Den + 1}

\* {"method":"isPrime","number":n}\n for each of the numbers.
NumberPayloads ==
    { <<Obj(<<Member("method", Str("isPrime")), Member("number", Num(n))>>), NL>> : n \in Numbers }

\* The members the objects sent are made of: the two fields with the right
\* and with wrong values, and a field to ignore.
MemberPool ==
    { Member("method", Str("isPrime")), Member("method", Str("isPrim")),
      Member("method", Num(7 * Den)),
      Member("number", Num(7 * Den)), Member("number", Str("123")),
      Member("number", Null), Member("number", Huge),
      Member("extra", Str("x")) }

\* The elements the arrays sent are made of.
ElementPool == { Str("isPrime"), Str("isPrim"), Num(7 * Den), Null }

SeqsUpTo(S, k) == UNION { [1..i -> S] : i \in 0..k }

\* What is sent to be parsed: objects with their members in every order,
\* missing, wrong, repeated and extra; arrays; other JSON values; bytes that
\* are no JSON; two documents in one frame; a frame cut short by the end of
\* the stream.
ParsePayloads ==
    { <<Obj(ms), NL>> : ms \in SeqsUpTo(MemberPool, MaxMembers) }
        \cup { <<Arr(vs), NL>> : vs \in SeqsUpTo(ElementPool, MaxMembers) }
        \cup { <<Scalar(v), NL>> : v \in ElementPool \cup {Bool(TRUE)} }
        \cup { <<Raw("\"method\":\"isPrim\",\"number\":123}"), NL>>, <<Raw(""), NL>>, <<NL>>,
               <<IsPrimeReq(7), IsPrimeReq(7), NL>>,
               <<IsPrimeReq(7)>>, <<WrongMethodReq>>, <<Raw("{\"method\":\"isPrime\",\"numb")>> }

\* The payloads of SpecHandler.
HandlerPayloads == NumberPayloads \cup ParsePayloads

\* A connection on which the peer has sent one payload, and has perhaps shut
\* down its side after it.
InitHandler ==
    \E p \in HandlerPayloads, closed \in BOOLEAN :
        /\ listener = "accepting"
        /\ task = [c \in {1} |-> NewTask]
        /\ net = [c \in {1} |-> p]
        /\ peerClosed = [c \in {1} |-> closed]
        /\ out = [c \in {1} |-> <<>>]
        /\ reqs = [c \in {1} |-> <<>>]
        /\ envOps = IF closed THEN 2 ELSE 1

NextHandler ==
    \/ \E c \in ConnIds : ReadFrame(c)
    \/ \E c \in ConnIds : Dispatching(c)
    \/ \E c \in ConnIds : WriteAll(c)
    \/ \E c \in ConnIds : Flush(c)
    \/ \E c \in ConnIds : ReadEof(c)

SpecHandler == InitHandler /\ [][NextHandler]_vars

\* ------------------------------------------------------------------ fair scheduling

\* The connection followed to its end.
LiveConns == {1}

InitLive == InitOver(LiveConns)

\* The runtime polls a spawned task whenever the operation it awaits can
\* complete: a step of the loop that stays possible is taken. The handler
\* step can be taken exactly while the task is in it, and
\* WF_vars(Dispatching(c)) is written out with that.
Fairness ==
    \A c \in LiveConns :
        /\ WF_vars(ReadFrame(c))
        /\ []<>(task[c].pc # "Dispatching") \/ []<><<Dispatching(c)>>_vars
        /\ WF_vars(ReadEof(c))
        /\ WF_vars(WriteAll(c))
        /\ WF_vars(Flush(c))

SpecLive == InitLive /\ [][Next]_vars /\ Fairness

\* ------------------------------------------------------------------ properties

\* The bytes `malformed\n`.
MalformedBytes == <<Raw("malformed"), NL>>
\* The bytes `{"method":"isPrime","prime":p}\n`.
ConformingBytes(p) ==
    <<Obj(<<Member("method", Str("isPrime")), Member("prime", Bool(p))>>), NL>>

IsMalformed(payload) == from_bytes(payload).variant = "MalformedReq"
IsConforming(payload) == from_bytes(payload).variant = "ConformingReq"

\* The last payload connection c dispatched.
LastReq(c) == reqs[c][Len(reqs[c])]

\* What the loop of connection c has done that its peer or its stream can see.
Trace(c) == <<task[c], out[c], reqs[c], net[c]>>

\* C1 (state part): a malformed payload is the last one its connection reads;
\* it is answered by at most one write, of exactly `malformed\n`, that no
\* earlier write carried; and once that write is out the loop has returned,
\* whatever is still buffered from the peer.
C1_State ==
    \A c \in ConnIds : \A i \in DOMAIN reqs[c] :
        IsMalformed(reqs[c][i]) =>
            /\ i = Len(reqs[c])
            /\ task[c].pc # "Reading"
            /\ Len(out[c]) <= i
            /\ \A j \in DOMAIN out[c] : j < i => out[c][j] # MalformedBytes
            /\ Len(out[c]) = i =>
                /\ out[c][i] = MalformedBytes
                /\ task[c].pc = "Done"
                /\ task[c].result = "Ok"

\* C1 (step part): a loop that has returned reads, dispatches and writes
\* nothing more.
C1_Step ==
    \A c \in ConnIds : task[c].pc = "Done" => Trace(c)' = Trace(c)

\* C1: on a malformed payload the loop writes `malformed\n` once and closes
\* the connection; nothing is read, dispatched or answered on it afterwards,
\* even with more requests of the peer already buffered.
C1_MalformedThenClose == [](C1_State) /\ [][C1_Step]_vars

\* C1 witness: the malformed response is out, the loop has returned, and a
\* further complete request of the peer is still buffered.
C1_Witness ==
    \E c \in ConnIds :
        /\ reqs[c] # <<>>
        /\ IsMalformed(LastReq(c))
        /\ Len(out[c]) = Len(reqs[c])
        /\ task[c].pc = "Done"
        /\ HasDelim(net[c])

\* C2 (state part): while the response to a conforming request is being
\* written, it is a conforming response and the loop is set to continue.
C2_State ==
    \A c \in ConnIds :
        (task[c].pc \in {"Writing", "Flushing"} /\ IsConforming(LastReq(c))) =>
            /\ task[c].response \in {ConformingBytes(TRUE), ConformingBytes(FALSE)}
            /\ task[c].should_continue

\* C2 (step part): the flush that answers a conforming request delivers a
\* conforming response and takes the loop back to Reading, connection open.
C2_Step ==
    \A c \in ConnIds :
        (Len(out'[c]) = Len(out[c]) + 1 /\ IsConforming(LastReq(c))) =>
            /\ out'[c][Len(out'[c])] \in {ConformingBytes(TRUE), ConformingBytes(FALSE)}
            /\ task'[c].pc = "Reading"
            /\ task'[c].should_continue
            /\ task'[c].result = "none"

\* C2: every conforming request is answered with a conforming response, after
\* which the loop is back in Reading and the connection stays open, request
\* after request.
C2_ConformingKeepsOpen == [](C2_State) /\ [][C2_Step]_vars

\* C2 witness: two successive conforming requests were answered on one
\* connection, which is reading again.
C2_Witness ==
    \E c \in ConnIds :
        /\ Len(out[c]) = 2
        /\ \A i \in 1..2 : IsConforming(reqs[c][i])
        /\ task[c].pc = "Reading"

\* The bytes the loop owes for a payload.
Reply(payload) == IF IsMalformed(payload) THEN MalformedBytes
                  ELSE ConformingBytes(is_prime(from_bytes(payload).number))

\* C3 (state part): the k-th bytes delivered on a connection answer its k-th
\* request, and a loop that is reading holds no response back.
C3_State ==
    \A c \in ConnIds :
        /\ Len(out[c]) <= Len(reqs[c])
        /\ \A i \in DOMAIN out[c] : out[c][i] = Reply(reqs[c][i])
        /\ task[c].pc = "Reading" => (Len(out[c]) = Len(reqs[c]) /\ task[c].wbuf = <<>>)

\* C3 (step part): when a request is read, the responses to all the requests
\* before it have been written and flushed.
C3_Step ==
    \A c \in ConnIds :
        Len(reqs'[c]) > Len(reqs[c]) =>
            /\ Len(reqs'[c]) = Len(reqs[c]) + 1
            /\ Len(out[c]) = Len(reqs[c])
            /\ task[c].wbuf = <<>>

\* C3: within a connection the responses come in the order of the requests,
\* and request N+1 is read only after the response to request N was written
\* and flushed.
C3_InOrder == [](C3_State) /\ [][C3_Step]_vars

\* C3 witness: two requests with different answers arrived together: the
\* first is dispatched and its response not flushed yet, the second waits,
\* complete, in the stream.
C3_Witness ==
    \E c \in ConnIds :
        /\ Len(reqs[c]) = 1
        /\ out[c] = <<>>
        /\ task[c].pc = "Flushing"
        /\ HasDelim(net[c])
        /\ Reply(reqs[c][1]) # Reply(SubSeq(net[c], 1, ReadLen(net[c])))

\* The responses in delivered or buffered bytes: one per delimiter.
Responses(bytes) == Cardinality(Delims(bytes))

RECURSIVE Flat(_)
Flat(chunks) == IF chunks = <<>> THEN <<>> ELSE Head(chunks) \o Flat(Tail(chunks))

\* C4: on a connection no more responses are written than payloads were
\* dispatched; at most the last payload is still unanswered, and none is once
\* the loop has returned; every flush carries one response, the one to one
\* request, and the write buffer never holds more than one.
C4_OneResponsePerRequest ==
    \A c \in ConnIds :
        /\ Responses(Flat(out[c]) \o task[c].wbuf) <= Len(reqs[c])
        /\ Len(reqs[c]) - Len(out[c]) \in {0, 1}
        /\ task[c].pc = "Done" => Len(out[c]) = Len(reqs[c])
        /\ \A i \in DOMAIN out[c] :
            /\ Responses(out[c][i]) = 1
            /\ out[c][i] \in {MalformedBytes, ConformingBytes(TRUE), ConformingBytes(FALSE)}
            /\ (out[c][i] = MalformedBytes) = IsMalformed(reqs[c][i])
        /\ task[c].wbuf \in {<<>>, task[c].response}
        /\ Responses(task[c].wbuf) <= 1

\* C4 witness: a connection answered a conforming and then a malformed
\* request, one write each.
C4_Witness ==
    \E c \in ConnIds :
        /\ Len(out[c]) = 2
        /\ IsConforming(reqs[c][1])
        /\ IsMalformed(reqs[c][2])
        /\ task[c].pc = "Done"

\* A socket is left for the listener to accept.
SocketPending == \E c \in ConnIds : task[c].pc = "none"

\* Connection c waits for its socket: for input that has not come.
BlockedOnRead(c) == task[c].pc = "Reading" /\ ~ ReadReady(c)

\* The next step of the loop of connection c, whichever it is.
LoopStep(c) == ReadFrame(c) \/ ReadEof(c) \/ WriteAll(c) \/ Flush(c)

\* Connection c has what its next step needs from its own socket.
CanStep(c) ==
    \/ task[c].pc = "Reading" /\ ReadReady(c)
    \/ task[c].pc \in {"Writing", "Flushing"}

\* C5: whatever the connections in flight are doing, the listener that waits
\* in accept can take the next socket, and a connection whose own socket is
\* ready can take its next step while others wait on theirs.
C5_AcceptNeverBlocked ==
    /\ (listener = "accepting" /\ SocketPending) => ENABLED Accept
    /\ \A c \in ConnIds : CanStep(c) => ENABLED LoopStep(c)

\* C5 witness: one connection waits for input, a socket is still to be
\* accepted and the listener is waiting for it.
C5_Witness ==
    /\ listener = "accepting"
    /\ SocketPending
    /\ \E c \in ConnIds : BlockedOnRead(c)

\* C7 (state part): a loop that ended with ReadFail has answered every
\* payload it had dispatched before and holds no bytes to write.
C7_State ==
    \A c \in ConnIds :
        task[c].result = "ReadFail" =>
            /\ task[c].pc = "Failed"
            /\ Len(out[c]) = Len(reqs[c])
            /\ task[c].wbuf = <<>>

\* C7 (step part): ReadFail is the outcome of a step taken in Reading, and
\* neither that step nor any later one writes to the peer.
C7_Step ==
    \A c \in ConnIds :
        /\ (task[c].result # "ReadFail" /\ task'[c].result = "ReadFail") =>
            (task[c].pc = "Reading" /\ out'[c] = out[c] /\ reqs'[c] = reqs[c])
        /\ task[c].result = "ReadFail" => Trace(c)' = Trace(c)

\* C7: a read that fails ends the loop as Failed with ReadFail, and no
\* response is written for it: nothing goes to the peer from the failed read on.
C7_ReadFailNoResponse == [](C7_State) /\ [][C7_Step]_vars

\* C7 witness: a connection answered a request and then failed reading the next.
C7_Witness ==
    \E c \in ConnIds :
        /\ task[c].result = "ReadFail"
        /\ Len(out[c]) = 1

\* Whether v >= 2 has no divisor other than 1 and itself.
NoDivisor(v) == v >= 2 /\ \A d \in 2..(v - 1) : v % d # 0

\* The answer the client on connection c is owed for its i-th request.
Owed(c, i) == ConformingBytes(NoDivisor(c + i))

\* C6: with 5 clients served at once, in every interleaving, what a
\* connection has delivered is the correct answers to its own client's
\* requests, in the order of its requests, and nothing else; no connection
\* is closed, and each loop holds only bytes of its own stream.
C6_FiveClients ==
    \A c \in ConnIds :
        /\ Len(out[c]) <= ReqsPerClient
        /\ \A i \in DOMAIN out[c] : out[c][i] = Owed(c, i)
        /\ \A i \in DOMAIN reqs[c] : reqs[c][i] = <<ScriptReq(c, i), NL>>
        /\ task[c].pc \in {"none", "Reading", "Dispatching", "Writing", "Flushing"}
        /\ task[c].pc \in {"Dispatching", "Writing", "Flushing"} =>
            /\ task[c].line = <<ScriptReq(c, Len(reqs[c])), NL>>
            /\ task[c].should_continue
        /\ task[c].pc \in {"Writing", "Flushing"} => task[c].response = Owed(c, Len(reqs[c]))

\* C6 witness: all 5 clients are connected at once and every one has all its
\* answers, which are not the same for all of them.
C6_Witness ==
    /\ Cardinality(ConnIds) = Clients
    /\ \A c \in ConnIds : Len(out[c]) = ReqsPerClient
    /\ \E c, d \in ConnIds : out[c] # out[d]

\* The state of the listener and of all connections but c.
Others(c) ==
    <<listener, [d \in ConnIds \ {c} |-> <<task[d], out[d], reqs[d], net[d], peerClosed[d]>>]>>

\* C8 (step part): the step that fails a connection leaves the listener and
\* every other connection as they were, sets ReadFail for a failed read and
\* WriteFail for a failed write or flush; a failed loop does nothing more.
C8_Step ==
    \A c \in ConnIds :
        /\ (task[c].pc # "Failed" /\ task'[c].pc = "Failed") =>
            /\ Others(c)' = Others(c)
            /\ task[c].pc \in {"Reading", "Writing", "Flushing"}
            /\ task'[c].result = IF task[c].pc = "Reading" THEN "ReadFail" ELSE "WriteFail"
            /\ out'[c] = out[c]
        /\ task[c].pc = "Failed" => Trace(c)' = Trace(c)

\* C8 (state part): with a connection failed, the listener that waits in
\* accept can still take the next socket and every other connection whose
\* socket is ready can take its next step.
C8_State ==
    (\E c \in ConnIds : task[c].pc = "Failed") =>
        /\ (listener = "accepting" /\ SocketPending) => ENABLED Accept
        /\ \A d \in ConnIds : CanStep(d) => ENABLED LoopStep(d)

\* C8: a read, write or flush failure ends only its own connection, with
\* ReadFail or WriteFail; the listener and the other connections go on as
\* before, and the failed operation is not tried again.
C8_FailureIsLocal == [](C8_State) /\ [][C8_Step]_vars

\* C8 witness: the first connection has failed on a write or flush, the
\* second one is being served and the listener waits in accept.
C8_Witness ==
    /\ task[1].result = "WriteFail"
    /\ task[2].pc = "Flushing"
    /\ listener = "accepting"

\* C9: after a successful bind the accept loop runs on, step after step.
C9_AcceptsForever == [][listener = "accepting" => listener' = "accepting"]_vars

\* C10 (state part): after a failed bind run has returned BindFail and no
\* socket was accepted, no loop started; sockets are only accepted after a
\* successful bind.
C10_State ==
    /\ listener = "BindFail" =>
        \A c \in ConnIds : task[c] = NoTask /\ out[c] = <<>> /\ reqs[c] = <<>>
    /\ Accepted # {} => listener \in {"accepting", "panicked"}

\* C10 (step part): the bind error is reported from the start of run only,
\* after it run does nothing more, and a listener that was bound never
\* reports it.
C10_Step ==
    /\ listener' = "BindFail" => listener \in {"start", "BindFail"}
    /\ listener = "BindFail" => UNCHANGED vars
    /\ listener = "start" => listener' \in {"start", "accepting", "BindFail"}

\* C10: a failed bind makes run return BindFail with no connection accepted
\* and no loop spawned; a successful bind starts the accept loop and is
\* never followed by a bind error.
C10_BindFailIsFatal == [](C10_State) /\ [][C10_Step]_vars

\* C10 witness: run has returned BindFail.
C10_Witness == listener = "BindFail"


\* ------------------------------------------------------------------ C11

\* The step of connection c is the read that returned zero bytes.
ZeroRead(c) ==
    /\ task[c].pc = "Reading"
    /\ task'[c].pc # "Reading"
    /\ reqs'[c] = reqs[c]
    /\ task'[c].result # "ReadFail"

\* C11 (step part): the read that returns zero bytes happens at the end of
\* the peer's stream with nothing left to read; it ends the loop with the
\* success outcome, and hands nothing to the handler, writes nothing,
\* flushes nothing and reads nothing.
C11_Step ==
    \A c \in ConnIds :
        ZeroRead(c) =>
            /\ peerClosed[c]
            /\ net[c] = <<>>
            /\ task'[c].pc = "Done"
            /\ task'[c].result = "Ok"
            /\ task'[c].should_continue = FALSE
            /\ task'[c].wbuf = <<>>
            /\ out'[c] = out[c]
            /\ net'[c] = net[c]

\* C11 (state part): a loop that ended with success on a conforming last
\* request, or on none, ended on a zero-length read: the peer had closed,
\* all it sent was read and every request was answered before.
C11_State ==
    \A c \in ConnIds :
        (task[c].pc = "Done" /\ (reqs[c] = <<>> \/ IsConforming(LastReq(c)))) =>
            /\ task[c].result = "Ok"
            /\ peerClosed[c]
            /\ net[c] = <<>>
            /\ Len(out[c]) = Len(reqs[c])
            /\ task[c].wbuf = <<>>

\* C11: a read of zero bytes is the end of the peer's stream: the loop ends
\* with the success outcome and does no further I/O on the connection.
C11_ZeroReadEndsLoop == [](C11_State) /\ [][C11_Step]_vars

\* C11 witness: a loop ended by a zero-length read after it answered a
\* conforming request.
C11_Witness ==
    \E c \in ConnIds :
        /\ task[c].pc = "Done"
        /\ task[c].result = "Ok"
        /\ reqs[c] # <<>>
        /\ IsConforming(LastReq(c))
        /\ Len(out[c]) = Len(reqs[c])


\* ------------------------------------------------------------------ C12

\* C12 (state part): a connection whose loop has ended, with success or with
\* a failure, owns nothing any more: its socket is closed and its buffers are
\* released; a loop that runs owns them all.
C12_State ==
    \A c \in ConnIds :
        /\ Ended(c) => task[c].owns = {}
        /\ Running(c) => task[c].owns = Locals
        /\ task[c].pc = "none" => task[c].owns = {}

\* C12 (step part): the socket is closed by the very step that ends the loop,
\* on each of the exit paths, and it is not reopened.
C12_Step ==
    \A c \in ConnIds :
        /\ (Running(c) /\ Ended(c)') =>
              /\ "socket" \in task[c].owns
              /\ task'[c].owns = {}
              /\ <<task'[c].pc, task'[c].result>> \in
                    {<<"Done", "Ok">>, <<"Failed", "ReadFail">>, <<"Failed", "WriteFail">>}
        /\ Ended(c) => task'[c].owns = {}

\* C12: on every exit path of the loop (the peer closed, a malformed request
\* was answered, a read failed, a write or a flush failed) the socket is
\* closed and the stream and the buffers are released.
C12_SocketClosedOnExit == [](C12_State) /\ [][C12_Step]_vars

\* C12 witness: one loop has ended with success after a malformed request and
\* another with a failure; both sockets are closed.
C12_Witness ==
    \E c, d \in ConnIds :
        /\ task[c].pc = "Done"
        /\ reqs[c] # <<>>
        /\ IsMalformed(LastReq(c))
        /\ task[d].pc = "Failed"
        /\ task[c].owns = {}
        /\ task[d].owns = {}


\* ------------------------------------------------------------------ C13

\* {"method":"isPrime","number":v}\n, v a whole number.
Asks(v) == <<IsPrimeReq(v), NL>>

\* Trial division of v by every d of [2, floor(sqrt(v))]: d is at most the
\* floor of the square root exactly when d * d <= v, that is d <= v \div d.
TrialDivision(v) == ~ \E d \in 2..v : d <= v \div d /\ v % d = 0

\* The whole numbers from 2 on that SpecHandler asks about.
WholeFromTwo == (2..MaxNumber) \cup {778013}

\* C13: for every whole number n >= 2 the response to a request about n
\* carries the result of trial division by every d of [2, floor(sqrt(n))];
\* 2, 11 and 778013 are answered prime and 9 not prime.
C13_TrialDivision ==
    \A c \in ConnIds :
        (reqs[c] # <<>> /\ task[c].pc \in {"Writing", "Flushing", "Reading", "Done"}) =>
            /\ \A v \in WholeFromTwo :
                  reqs[c][1] = Asks(v) =>
                     /\ task[c].response = ConformingBytes(TrialDivision(v))
                     /\ out[c] # <<>> => out[c][1] = ConformingBytes(TrialDivision(v))
            /\ \A v \in {2, 11, 778013} :
                  reqs[c][1] = Asks(v) => task[c].response = ConformingBytes(TRUE)
            /\ reqs[c][1] = Asks(9) => task[c].response = ConformingBytes(FALSE)

\* C13 witness: 778013 was asked about and answered prime.
C13_Witness ==
    \E c \in ConnIds :
        /\ reqs[c] = <<Asks(778013)>>
        /\ out[c] = <<ConformingBytes(TRUE)>>


\* ------------------------------------------------------------------ C14

\* {"method":"isPrime","number":n}\n, n in units of 1/Den.
AsksNumber(n) ==
    <<Obj(<<Member("method", Str("isPrime")), Member("number", Num(n))>>), NL>>

\* The numbers below 2 and the numbers with a fractional part.
NeverPrime == {n \in Numbers : n < 2 * Den \/ n % Den # 0}

\* Connection c was asked about a number of NeverPrime.
AskedNeverPrime(c) == \E n \in NeverPrime : reqs[c] = <<AsksNumber(n)>>

\* C14 (state part): a request about a number below 2 or with a fractional
\* part is conforming; its response is the conforming one with prime false,
\* never `malformed\n`; the loop continues and ends only when the peer closed.
C14_State ==
    \A c \in ConnIds :
        AskedNeverPrime(c) =>
            /\ IsConforming(reqs[c][1])
            /\ ~ is_prime(from_bytes(reqs[c][1]).number)
            /\ task[c].pc \in {"Writing", "Flushing"} =>
                  /\ task[c].response = ConformingBytes(FALSE)
                  /\ task[c].should_continue
            /\ out[c] # <<>> => out[c] = <<ConformingBytes(FALSE)>>
            /\ task[c].pc # "Failed"
            /\ task[c].pc = "Done" => (peerClosed[c] /\ out[c] # <<>>)

\* C14 (step part): once the response is flushed the loop reads again, on a
\* connection that is still open.
C14_Step ==
    \A c \in ConnIds :
        (AskedNeverPrime(c) /\ out[c] = <<>> /\ out'[c] # <<>>) =>
            /\ task'[c].pc = "Reading"
            /\ task'[c].should_continue
            /\ "socket" \in task'[c].owns

\* C14: for every number below 2 (negative, 0, 1) and every number with a
\* non-zero fractional part is_prime is false, and the request is conforming
\* all the same: answered with prime false, not with the malformed response,
\* and the connection stays open.
C14_NeverPrimeIsConforming == [](C14_State) /\ [][C14_Step]_vars

\* C14 witness: a request about 4224223.1 was answered with prime false and
\* the loop reads again on the open connection.
C14_Witness ==
    \E c \in ConnIds :
        /\ reqs[c] = <<AsksNumber(4224223 * Den + 1)>>
        /\ out[c] = <<ConformingBytes(FALSE)>>
        /\ task[c].pc = "Reading"
        /\ "socket" \in task[c].owns


\* ------------------------------------------------------------------ C15

\* The document of a payload reads as a JSON object that has a field method
\* with the string "isPrime" and a field number with a number.
IsPrimeObject(p) ==
    LET doc == Document(p) IN
    /\ doc.kind = "object"
    /\ \E i \in DOMAIN doc.items : doc.items[i] = Member("method", Str("isPrime"))
    /\ \E i \in DOMAIN doc.items :
          doc.items[i].key = "number" /\ doc.items[i].val.t = "num"

\* Payloads on which the words of the claim leave the answer open: an object
\* that repeats a field, or whose number does not fit an f64.
Disputable(p) ==
    LET doc == Document(p) IN
    /\ doc.kind = "object"
    /\ \/ Cardinality(Keyed(doc.items, "method")) > 1
       \/ Cardinality(Keyed(doc.items, "number")) > 1
       \/ \E i \in DOMAIN doc.items : doc.items[i].val.t = "huge"

\* C15: every payload is answered either as conforming or as malformed, and
\* as conforming exactly when it is a well-formed JSON object with a string
\* field method equal to "isPrime" and a numeric field number, in any order
\* and with any extra fields.
C15_ConformingIffIsPrimeObject ==
    \A c \in ConnIds :
        (reqs[c] # <<>> /\ task[c].pc \in {"Writing", "Flushing"}) =>
            /\ task[c].response \in
                  {MalformedBytes, ConformingBytes(TRUE), ConformingBytes(FALSE)}
            /\ ~ Disputable(reqs[c][1]) =>
                  (task[c].response # MalformedBytes <=> IsPrimeObject(reqs[c][1]))


\* ------------------------------------------------------------------ C16

\* The responses connection c has computed so far, by request: those
\* delivered, and the one being written.
Answered(c) ==
    [i \in {i \in DOMAIN reqs[c] :
                i <= Len(out[c]) \/ task[c].pc \in {"Writing", "Flushing"}} |->
        IF i <= Len(out[c]) THEN out[c][i] ELSE task[c].response]

\* C16: the response to a payload is a function of the payload alone: the
\* same payload gets the same response bytes whatever requests were handled
\* before it, on the same connection or on another one.
C16_StatelessReplies ==
    \A c, d \in ConnIds :
        \A i \in DOMAIN Answered(c), j \in DOMAIN Answered(d) :
            reqs[c][i] = reqs[d][j] => Answered(c)[i] = Answered(d)[j]

\* C16 witness: one payload was answered as the second request of one
\* connection, after a request with another response, and as the first
\* request of another connection.
C16_Witness ==
    \E c, d \in ConnIds :
        /\ c # d
        /\ Len(out[c]) = 2
        /\ Len(out[d]) = 1
        /\ reqs[c][2] = reqs[d][1]
        /\ out[c][1] # out[c][2]
        /\ out[c][2] = out[d][1]


\* ------------------------------------------------------------------ C17

\* A payload that does not end with the delimiter.
Unterminated(payload) == payload = <<>> \/ payload[Len(payload)] # NL

\* C17 (state part): a payload without delimiter is what the peer sent last
\* before it closed: it is not empty, nothing follows it, and the response
\* delivered for it is the one any payload with these bytes gets. A loop that
\* ended with success after conforming requests has left none of the peer's
\* bytes unread.
C17_State ==
    \A c \in ConnIds :
        /\ \A i \in DOMAIN reqs[c] :
              Unterminated(reqs[c][i]) =>
                 /\ reqs[c][i] # <<>>
                 /\ peerClosed[c]
                 /\ i = Len(reqs[c])
                 /\ net[c] = <<>>
                 /\ i <= Len(out[c]) => out[c][i] = Reply(reqs[c][i])
                 /\ (task[c].pc = "Done" /\ task[c].result = "Ok") => Len(out[c]) = i
        /\ (task[c].pc = "Done" /\ (reqs[c] = <<>> \/ IsConforming(LastReq(c)))) =>
              net[c] = <<>>

\* C17 (step part): the read that returns the bytes before the end of the
\* stream returns all of them and hands them to the handler, it does not end
\* the loop; a read after it returns zero bytes and ends the loop.
C17_Step ==
    \A c \in ConnIds :
        /\ (Len(reqs'[c]) > Len(reqs[c]) /\ Unterminated(LastReq(c)')) =>
              /\ LastReq(c)' = net[c]
              /\ task'[c].pc = "Dispatching"
              /\ task'[c].line = net[c]
              /\ task'[c].should_continue
        /\ (/\ reqs[c] # <<>>
            /\ Unterminated(LastReq(c))
            /\ task[c].pc = "Reading"
            /\ task'[c].pc # "Reading"
            /\ task'[c].result # "ReadFail") =>
              /\ task'[c].pc = "Done"
              /\ task'[c].result = "Ok"
              /\ reqs'[c] = reqs[c]
              /\ out'[c] = out[c]

\* C17: when the peer closes after bytes that no delimiter ends, these bytes
\* are returned as a payload, dispatched and answered like any other; the end
\* of the stream shows only in the next read, which returns zero bytes and
\* ends the loop.
C17_PartialFrameAtEof == [](C17_State) /\ [][C17_Step]_vars

\* C17 witness: the bytes before the end of the stream, without delimiter,
\* were answered as a conforming request and the next read ended the loop.
C17_Witness ==
    \E c \in ConnIds :
        /\ reqs[c] # <<>>
        /\ Unterminated(LastReq(c))
        /\ IsConforming(LastReq(c))
        /\ Len(out[c]) = Len(reqs[c])
        /\ task[c].pc = "Done"
        /\ task[c].result = "Ok"


\* ------------------------------------------------------------------ C18

\* C18 as stated: every payload handed to the handler ends with the
\* delimiter, its only one.
C18_EveryPayloadEndsWithDelimiter ==
    \A c \in ConnIds : \A i \in DOMAIN reqs[c] :
        /\ reqs[c][i] # <<>>
        /\ Delims(reqs[c][i]) = {Len(reqs[c][i])}

\* C18 (state part): a payload holds no delimiter before its last byte; it
\* ends with the delimiter unless the peer closed the stream before one, and
\* then it is the last payload and ends where the stream ends. The line
\* buffer is empty whenever the loop is about to read.
C18_State ==
    \A c \in ConnIds :
        /\ task[c].pc = "Reading" => task[c].line = <<>>
        /\ \A i \in DOMAIN reqs[c] :
              /\ reqs[c][i] # <<>>
              /\ Delims(reqs[c][i]) \subseteq {Len(reqs[c][i])}
              /\ Unterminated(reqs[c][i]) =>
                    (peerClosed[c] /\ net[c] = <<>> /\ i = Len(reqs[c]))

\* C18 (step part): the payload of a read is exactly the bytes that read took
\* from the front of the stream, with nothing before them from an earlier
\* frame.
C18_Step ==
    \A c \in ConnIds :
        Len(reqs'[c]) > Len(reqs[c]) =>
            /\ task[c].line = <<>>
            /\ LastReq(c)' \o net'[c] = net[c]
            /\ task'[c].line = LastReq(c)'

\* C18 (amended): each payload handed to the handler is exactly the bytes of
\* one frame, read since the previous delimiter, up to and including the
\* delimiter, or up to the end of the stream when the peer closed before a
\* delimiter; no byte is left over from an earlier frame.
C18_OneFramePerPayload == [](C18_State) /\ [][C18_Step]_vars

\* C18 witness: a connection read a frame ended by the delimiter and then a
\* frame ended by the end of the stream.
C18_Witness ==
    \E c \in ConnIds :
        /\ Len(reqs[c]) = 2
        /\ ~ Unterminated(reqs[c][1])
        /\ Unterminated(reqs[c][2])
        /\ Len(out[c]) = 2


\* ------------------------------------------------------------------ C19

\* The step ends the loop of c on a read of zero bytes at the end of the
\* peer's stream.
EndsOnPeerClose(c) ==
    /\ task[c].pc = "Reading"
    /\ peerClosed[c]
    /\ net[c] = <<>>
    /\ task'[c].pc = "Done"
    /\ task'[c].result = "Ok"
    /\ out'[c] = out[c]

\* The step ends the loop of c by delivering the response to a malformed
\* request.
EndsOnMalformed(c) ==
    /\ task[c].pc = "Flushing"
    /\ IsMalformed(LastReq(c))
    /\ out'[c] = Append(out[c], MalformedBytes)
    /\ task'[c].pc = "Done"
    /\ task'[c].result = "Ok"

\* The step ends the loop of c on an error of read_until, write_all or flush.
EndsOnIoError(c) ==
    /\ task'[c].pc = "Failed"
    /\ \/ task[c].pc = "Reading" /\ task'[c].result = "ReadFail"
       \/ task[c].pc \in {"Writing", "Flushing"} /\ task'[c].result = "WriteFail"
    /\ envOps' = envOps + 1
    /\ out'[c] = out[c]

\* C19 (step part): a loop ends only by one of the three; the flush of the
\* response to a conforming request takes it back to reading; and a loop
\* that waits for input of a peer that has not closed ends only on a read
\* error.
C19_Step ==
    \A c \in ConnIds :
        /\ (Running(c) /\ Ended(c)') =>
              (EndsOnPeerClose(c) \/ EndsOnMalformed(c) \/ EndsOnIoError(c))
        /\ (task[c].pc = "Flushing" /\ IsConforming(LastReq(c)) /\ out'[c] # out[c]) =>
              task'[c].pc = "Reading"
        /\ (BlockedOnRead(c) /\ task'[c] # task[c]) =>
              (task'[c].pc = "Failed" /\ task'[c].result = "ReadFail")

\* C19: the loop ends only because the peer closed the stream (a read of
\* zero bytes), because a malformed request was answered, or because a read
\* or a write failed; never after a conforming request whose response was
\* written, never on an idle timeout. Under fair scheduling a loop whose
\* peer has closed the stream eventually ends.
C19_LoopEnds ==
    /\ [][C19_Step]_vars
    /\ \A c \in LiveConns : peerClosed[c] ~> Ended(c)

\* C19 witness: the peer closed with a conforming request still unread; the
\* loop answered it, read on, and ended on the read of zero bytes.
C19_Witness ==
    \E c \in ConnIds :
        /\ peerClosed[c]
        /\ reqs[c] # <<>>
        /\ IsConforming(LastReq(c))
        /\ Len(out[c]) = Len(reqs[c])
        /\ task[c].pc = "Done"


\* ------------------------------------------------------------------ C20

\* The two shapes of a response: `malformed\n`, and the object with method
\* "isPrime" and a boolean prime, then one newline.
ResponseShapes == {MalformedBytes, ConformingBytes(TRUE), ConformingBytes(FALSE)}

\* C20 (state part): the response the loop writes, and every response it
\* delivered, is not empty and has one of the two shapes, with one newline,
\* at its end; the response to a malformed request is `malformed\n` whatever
\* the request held.
C20_State ==
    \A c \in ConnIds :
        /\ task[c].pc \in {"Writing", "Flushing"} =>
              /\ task[c].response # <<>>
              /\ task[c].response \in ResponseShapes
              /\ Delims(task[c].response) = {Len(task[c].response)}
              /\ IsMalformed(LastReq(c)) <=> task[c].response = MalformedBytes
        /\ \A i \in DOMAIN out[c] :
              /\ out[c][i] # <<>>
              /\ out[c][i] \in ResponseShapes
              /\ IsMalformed(reqs[c][i]) <=> out[c][i] = MalformedBytes

\* C20 (step part): the handler always leaves bytes to write: after it the
\* loop is at write_all, the guard on an empty response skips nothing.
C20_Step ==
    \A c \in ConnIds :
        (task[c].pc = "Dispatching" /\ task'[c] # task[c]) =>
            /\ task'[c].pc = "Writing"
            /\ task'[c].response # <<>>

\* C20: every response the loop writes is non-empty and is `malformed\n` or
\* a serialized object with method "isPrime" and a boolean prime followed by
\* exactly one newline; the guard on an empty response never skips a write,
\* and the malformed response carries nothing of the request.
C20_ResponseShapes == [](C20_State) /\ [][C20_Step]_vars

\* C20 witness: a payload that is no JSON was answered with `malformed\n`.
C20_Witness ==
    \E c \in ConnIds :
        /\ reqs[c] = <<<<Raw(""), NL>>>>
        /\ out[c] = <<MalformedBytes>>
        /\ task[c].pc = "Done"

====
